---- MODULE Spec2Model ----
(***************************************************************************)
(* A model of chezmoi's mutation backends.                                 *)
(*                                                                         *)
(*   - GitDiffSystem (v2/chezmoi/gitdiffsystem.go): wraps a read-only      *)
(*     SystemReader and hands one patch per write call to a unified-diff   *)
(*     encoder instead of mutating anything.                               *)
(*   - RealSystem and WriteFile (the direct backend): WriteFile,           *)
(*     RunScript and WriteSymlink, modelled step by step, every primitive  *)
(*     filesystem call being free to fail.                                 *)
(*                                                                         *)
(* Strings and byte slices are sequences; an os.FileMode is a record of    *)
(* its type bits and its permission bits; an error is the sequence of the  *)
(* errors multierr has collected (the empty sequence is nil).              *)
(***************************************************************************)
EXTENDS Integers, Sequences, FiniteSets, TLC

VARIABLES
    fs,         \* the filesystem: path -> entry
    store,      \* the persistent state: key -> value (one bucket)
    fs0,        \* the filesystem as it was when the backend was constructed
    store0,     \* the persistent state as it was then
    last,       \* GitDiffSystem: the most recent call, its result and its patch
    pc,         \* direct backend: position inside the running call
    call,       \* direct backend: the arguments of the running call
    err,        \* direct backend: the named result err of the running call
    hist,       \* direct backend: the primitive steps the running call has made
    tmp         \* RunScript: the temporary script file

vars == <<fs, store, fs0, store0, last, pc, call, err, hist, tmp>>

directVars == <<pc, call, err, hist, tmp>>

(***************************************************************************)
(* Bounds.                                                                 *)
(***************************************************************************)
MaxLen == 1      \* longest file content / script, in bytes

(***************************************************************************)
(* Strings, bytes, paths.                                                  *)
(***************************************************************************)
\* Byte values: 0 is NUL, 10 is a newline, 97 is the letter a.
Bytes == {0, 10, 97}

Contents == UNION {[1..n -> Bytes] : n \in 0..MaxLen}

\* The paths callers pass.  HF = "/h/f", HH = "/h/h", X = "/x".
HF == <<"/", "h", "/", "f">>
HH == <<"/", "h", "/", "h">>
X == <<"/", "x">>
Paths == {HF, HH, X}

\* The prefix the GitDiffSystem was constructed with: "/h".
Prefix == <<"/", "h">>

HasPrefix(s, p) == Len(s) >= Len(p) /\ SubSeq(s, 1, Len(p)) = p

TrimPrefix(s, p) == IF HasPrefix(s, p) THEN SubSeq(s, Len(p) + 1, Len(s)) ELSE s

(***************************************************************************)
(* os.FileMode and the filesystem.                                         *)
(***************************************************************************)
\* Permission bits 0600, 0644, 0755.
Perms == {384, 420, 493}

Mode(type, perm) == [type |-> type, perm |-> perm]

Absent == [type |-> "absent"]
File(perm, data) == [type |-> "regular", perm |-> perm, data |-> data]
Dir(perm) == [type |-> "dir", perm |-> perm]
Symlink(target) == [type |-> "symlink", perm |-> 511, target |-> target]
Pipe == [type |-> "pipe", perm |-> 420]

\* The entries a path can hold at the start: a file of any permission bits, a
\* file of any content, a directory, a symbolic link, a named pipe, nothing.
Entries ==
    {Absent, Pipe}
        \cup {File(p, <<97>>) : p \in Perms}
        \cup {File(420, d) : d \in Contents}
        \cup {Dir(p) : p \in Perms}
        \cup {Symlink(t) : t \in Paths}

NoValue == "none"
Keys == {"k1", "k2"}
Values == {"v1", "v2"}

nil == <<>>
ErrNotExist == <<"ENOENT">>
ErrLoop == <<"ELOOP">>
ErrInvalid == <<"EINVAL">>
ErrIsDir == <<"EISDIR">>
ErrNoGitMode == <<"no equivalent git mode">>

(***************************************************************************)
(* The SystemReader the GitDiffSystem wraps: POSIX reads of fs.            *)
(***************************************************************************)
RECURSIVE Resolve(_, _, _)
\* The entry name leads to, symbolic links followed.
Resolve(f, name, fuel) ==
    IF f[name].type # "symlink" THEN f[name]
    ELSE IF fuel = 0 THEN [type |-> "loop"]
    ELSE Resolve(f, f[name].target, fuel - 1)

Follow(f, name) == Resolve(f, name, Cardinality(Paths))

SRStat(f, name) ==
    LET e == Follow(f, name) IN
    IF e.type = "absent" THEN [err |-> ErrNotExist]
    ELSE IF e.type = "loop" THEN [err |-> ErrLoop]
    ELSE [err |-> nil, mode |-> Mode(e.type, e.perm)]

SRReadFile(f, name) ==
    LET e == Follow(f, name) IN
    IF e.type = "absent" THEN [err |-> ErrNotExist]
    ELSE IF e.type = "loop" THEN [err |-> ErrLoop]
    ELSE IF e.type = "dir" THEN [err |-> ErrIsDir]
    ELSE IF e.type = "pipe" THEN [err |-> ErrInvalid]
    ELSE [err |-> nil, data |-> e.data]

SRReadlink(f, name) ==
    IF f[name].type = "absent" THEN [err |-> ErrNotExist]
    ELSE IF f[name].type # "symlink" THEN [err |-> ErrInvalid]
    ELSE [err |-> nil, target |-> f[name].target]

SRGet(st, key) == st[key]

(***************************************************************************)
(* go-git's file modes, plumbing hashes and net/http's content sniffing,   *)
(* as GitDiffSystem uses them.                                             *)
(***************************************************************************)
\* filemode.NewFromOSFileMode: a regular file is Executable when its owner
\* execute bit (0100) is set and Regular otherwise; a directory is Dir, a
\* symbolic link Symlink; every other type has no git mode.
NewFromOSFileMode(m) ==
    IF m.type = "regular"
    THEN [fileMode |-> IF (m.perm \div 64) % 2 = 1 THEN "Executable" ELSE "Regular",
          err |-> nil]
    ELSE IF m.type = "dir" THEN [fileMode |-> "Dir", err |-> nil]
    ELSE IF m.type = "symlink" THEN [fileMode |-> "Symlink", err |-> nil]
    ELSE [fileMode |-> "Empty", err |-> ErrNoGitMode]

\* plumbing.ZeroHash and plumbing.ComputeHash(plumbing.BlobObject, data): the
\* hash of "blob " + decimal(len(data)) + NUL + data, kept as its preimage.
ZeroHash == [kind |-> "zero"]
ComputeHash(data) == [kind |-> "blob", len |-> Len(data), content |-> data]

\* http.DetectContentType on the byte values of the model: data holding a NUL
\* byte is application/octet-stream, any other data (the empty one too) is
\* text/plain.
DetectContentType(data) ==
    IF \E i \in 1..Len(data) : data[i] = 0
    THEN <<"application", "/", "octet-stream">>
    ELSE <<"text", "/", "plain">>

isBinary(data) == Len(data) # 0 /\ ~HasPrefix(DetectContentType(data), <<"text", "/">>)

(***************************************************************************)
(* diffChunks: the line diff.  The texts are cut into lines (each keeps    *)
(* its newline); the common leading and trailing lines are Equal chunks,   *)
(* what is left of from is one Delete chunk and what is left of to one Add *)
(* chunk, which is what diffmatchpatch returns for the texts of the model. *)
(***************************************************************************)
RECURSIVE SplitLines(_)
SplitLines(text) ==
    IF text = <<>> THEN <<>>
    ELSE LET nl == {i \in 1..Len(text) : text[i] = 10}
             cut == IF nl = {} THEN Len(text)
                    ELSE CHOOSE i \in nl : \A j \in nl : i <= j
         IN <<SubSeq(text, 1, cut)>> \o SplitLines(SubSeq(text, cut + 1, Len(text)))

RECURSIVE Join(_)
Join(lines) == IF lines = <<>> THEN <<>> ELSE Head(lines) \o Join(Tail(lines))

Min(a, b) == IF a <= b THEN a ELSE b

CommonPrefixLen(a, b) ==
    LET same == {n \in 0..Min(Len(a), Len(b)) : SubSeq(a, 1, n) = SubSeq(b, 1, n)}
    IN CHOOSE n \in same : \A m \in same : m <= n

Reverse(a) == [i \in 1..Len(a) |-> a[Len(a) + 1 - i]]

Chunk(content, operation) == [content |-> content, operation |-> operation]

ChunkIf(lines, operation) ==
    IF lines = <<>> THEN <<>> ELSE <<Chunk(Join(lines), operation)>>

diffChunks(from, to) ==
    LET a == SplitLines(from)
        b == SplitLines(to)
        pre == CommonPrefixLen(a, b)
        a1 == SubSeq(a, pre + 1, Len(a))
        b1 == SubSeq(b, pre + 1, Len(b))
        suf == CommonPrefixLen(Reverse(a1), Reverse(b1))
    IN ChunkIf(SubSeq(a, 1, pre), "Equal")
           \o ChunkIf(SubSeq(a1, 1, Len(a1) - suf), "Delete")
           \o ChunkIf(SubSeq(b1, 1, Len(b1) - suf), "Add")
           \o ChunkIf(SubSeq(a1, Len(a1) - suf + 1, Len(a1)), "Equal")

(***************************************************************************)
(* GitDiffSystem.  Every method is an operator that returns what the       *)
(* method does: the error it returns, the patch it hands to                *)
(* unifiedEncoder.Encode (NoPatch when it returns before encoding) and     *)
(* whether it ran diffChunks.  The encoder writes the patch out and keeps  *)
(* nothing the backend reads back, so the sink is the patch it was handed  *)
(* by the latest call.                                                     *)
(***************************************************************************)
NoFile == [none |-> TRUE]
NoPatch == [none |-> TRUE]

gitDiffFile(fileMode, path, hash) == [fileMode |-> fileMode, path |-> path, hash |-> hash]

gitDiffFilePatch(isBin, from, to, chunks) ==
    [isBinary |-> isBin, from |-> from, to |-> to, chunks |-> chunks]

Returned(e) == [err |-> e, patch |-> NoPatch, diffed |-> FALSE]
Encoded(patch, diffed) == [err |-> nil, patch |-> patch, diffed |-> diffed]

\* A variant that cuts len(prefix) bytes off without looking at them.
trimPrefixUnchecked(path) == SubSeq(path, Len(Prefix) + 1, Len(path))

trimPrefix(path) == TrimPrefix(path, Prefix)

getFileMode(f, name) ==
    LET st == SRStat(f, name) IN
    IF st.err # nil THEN [fileMode |-> "Empty", err |-> st.err]
    ELSE LET fm == NewFromOSFileMode(st.mode)
         IN [fileMode |-> fm.fileMode, info |-> st.mode, err |-> fm.err]

\* A variant that translates mode alone, dropping the type bits of the path.
GDChmodDropsType(f, name, mode) ==
    LET fm == getFileMode(f, name) IN
    IF fm.err # nil THEN Returned(fm.err)
    ELSE LET to == NewFromOSFileMode(Mode("regular", mode))
             path == trimPrefix(name)
         IN IF to.err # nil THEN Returned(to.err)
            ELSE Encoded(gitDiffFilePatch(FALSE,
                                          gitDiffFile(fm.fileMode, path, ZeroHash),
                                          gitDiffFile(to.fileMode, path, ZeroHash),
                                          <<>>), FALSE)

\* Chmod: info.Mode()&^os.ModePerm | mode keeps the type bits of the path and
\* takes the permission bits of mode.
GDChmod(f, name, mode) ==
    LET fm == getFileMode(f, name) IN
    IF fm.err # nil THEN Returned(fm.err)
    ELSE LET to == NewFromOSFileMode(Mode(fm.info.type, mode))
             path == trimPrefix(name)
         IN IF to.err # nil THEN Returned(to.err)
            ELSE Encoded(gitDiffFilePatch(FALSE,
                                          gitDiffFile(fm.fileMode, path, ZeroHash),
                                          gitDiffFile(to.fileMode, path, ZeroHash),
                                          <<>>), FALSE)

GDMkdir(f, name, perm) ==
    LET to == NewFromOSFileMode(Mode("dir", perm)) IN
    IF to.err # nil THEN Returned(to.err)
    ELSE Encoded(gitDiffFilePatch(FALSE, NoFile,
                                  gitDiffFile(to.fileMode, trimPrefix(name), ZeroHash),
                                  <<>>), FALSE)

GDRemoveAll(f, name) ==
    LET fm == getFileMode(f, name) IN
    IF fm.err # nil THEN Returned(fm.err)
    ELSE Encoded(gitDiffFilePatch(FALSE,
                                  gitDiffFile(fm.fileMode, trimPrefix(name), ZeroHash),
                                  NoFile, <<>>), FALSE)

GDRunScript(f, name, data) ==
    LET bin == isBinary(data)
        chunks == IF ~bin THEN <<Chunk(data, "Add")>> ELSE <<>>
    IN Encoded(gitDiffFilePatch(bin, NoFile,
                                gitDiffFile("Executable", trimPrefix(name), ComputeHash(data)),
                                chunks), FALSE)

GDRename(f, oldpath, newpath) ==
    LET fm == getFileMode(f, oldpath) IN
    IF fm.err # nil THEN Returned(fm.err)
    ELSE Encoded(gitDiffFilePatch(FALSE,
                                  gitDiffFile(fm.fileMode, trimPrefix(oldpath), ZeroHash),
                                  gitDiffFile(fm.fileMode, trimPrefix(newpath), ZeroHash),
                                  <<>>), FALSE)

\* A variant that classifies the new content only.
GDWriteFileSniffsNewOnly(f, filename, data, perm) ==
    LET fm == getFileMode(f, filename) IN
    IF fm.err # nil THEN Returned(fm.err)
    ELSE LET rd == SRReadFile(f, filename) IN
    IF rd.err # nil THEN Returned(rd.err)
    ELSE LET to == NewFromOSFileMode(Mode("regular", perm)) IN
    IF to.err # nil THEN Returned(to.err)
    ELSE LET path == trimPrefix(filename)
             bin == isBinary(data)
             chunks == IF ~bin THEN diffChunks(rd.data, data) ELSE <<>>
         IN Encoded(gitDiffFilePatch(bin,
                                     gitDiffFile(fm.fileMode, path, ComputeHash(rd.data)),
                                     gitDiffFile(to.fileMode, path, ComputeHash(data)),
                                     chunks), ~bin)

GDWriteFile(f, filename, data, perm) ==
    LET fm == getFileMode(f, filename) IN
    IF fm.err # nil THEN Returned(fm.err)
    ELSE LET rd == SRReadFile(f, filename) IN
    IF rd.err # nil THEN Returned(rd.err)
    ELSE LET to == NewFromOSFileMode(Mode("regular", perm)) IN
    IF to.err # nil THEN Returned(to.err)
    ELSE LET path == trimPrefix(filename)
             bin == isBinary(rd.data) \/ isBinary(data)
             chunks == IF ~bin THEN diffChunks(rd.data, data) ELSE <<>>
         IN Encoded(gitDiffFilePatch(bin,
                                     gitDiffFile(fm.fileMode, path, ComputeHash(rd.data)),
                                     gitDiffFile(to.fileMode, path, ComputeHash(data)),
                                     chunks), ~bin)

GDWriteSymlink(f, oldname, newname) ==
    Encoded(gitDiffFilePatch(FALSE, NoFile,
                             gitDiffFile("Symlink", trimPrefix(newname), ComputeHash(oldname)),
                             <<Chunk(oldname, "Add")>>), FALSE)

\* A variant that writes through to the wrapped store.
GDSetWritesThrough(st, key, value) == [st EXCEPT ![key] = value]

\* Set and Delete return nil and touch nothing: the store after the call.
GDSet(st, key, value) == st

GDDelete(st, key) == st

\* The reads delegate to the wrapped SystemReader.
GDStat(name) == SRStat(fs, name)
GDReadFile(filename) == SRReadFile(fs, filename)
GDReadlink(name) == SRReadlink(fs, name)
GDGet(key) == SRGet(store, key)

(***************************************************************************)
(* The calls a client makes through one GitDiffSystem.                     *)
(***************************************************************************)
NoArg == <<>>

Called(op, name, name2, data, perm, res) ==
    [op |-> op, name |-> name, name2 |-> name2, data |-> data, perm |-> perm,
     err |-> res.err, patch |-> res.patch, diffed |-> res.diffed]

NoCall == Called("none", NoArg, NoArg, NoArg, 0, Returned(nil))

\* A filesystem write or RunScript call: nothing but the sink changes.
Translate(op, name, name2, data, perm, res) ==
    /\ last' = Called(op, name, name2, data, perm, res)
    /\ UNCHANGED <<fs, store, fs0, store0, directVars>>

Chmod == \E name \in Paths, mode \in Perms :
    Translate("Chmod", name, NoArg, NoArg, mode, GDChmod(fs, name, mode))

Mkdir == \E name \in Paths, perm \in Perms :
    Translate("Mkdir", name, NoArg, NoArg, perm, GDMkdir(fs, name, perm))

RemoveAll == \E name \in Paths :
    Translate("RemoveAll", name, NoArg, NoArg, 0, GDRemoveAll(fs, name))

RunScript == \E name \in Paths, data \in Contents :
    Translate("RunScript", name, NoArg, data, 0, GDRunScript(fs, name, data))

Rename == \E oldpath \in Paths, newpath \in Paths :
    Translate("Rename", oldpath, newpath, NoArg, 0, GDRename(fs, oldpath, newpath))

WriteFile == \E filename \in Paths, data \in Contents, perm \in Perms :
    Translate("WriteFile", filename, NoArg, data, perm, GDWriteFile(fs, filename, data, perm))

WriteSymlink == \E oldname \in Paths, newname \in Paths :
    Translate("WriteSymlink", newname, oldname, NoArg, 0, GDWriteSymlink(fs, oldname, newname))

StateCall(op, key, value, st) ==
    /\ store' = st
    /\ last' = Called(op, key, value, NoArg, 0, Returned(nil))
    /\ UNCHANGED <<fs, fs0, store0, directVars>>

Set == \E key \in Keys, value \in Values :
    StateCall("Set", key, value, GDSet(store, key, value))

Delete == \E key \in Keys :
    StateCall("Delete", key, NoArg, GDDelete(store, key))

(***************************************************************************)
(* The states a wrapped provider can be in: a home tree (a file, a link to  *)
(* it, a directory) with one path replaced by any entry.                   *)
(***************************************************************************)
HomeTree == [p \in Paths |->
                IF p = HF THEN File(420, <<97>>)
                ELSE IF p = HH THEN Symlink(HF)
                ELSE Dir(493)]

Trees == {[HomeTree EXCEPT ![p] = e] : p \in Paths, e \in Entries}

Stores == {[k \in Keys |-> IF k = "k1" THEN "v1" ELSE NoValue]}

Idle == /\ pc = "idle"
        /\ call = NoArg
        /\ err = nil
        /\ hist = <<>>
        /\ tmp = Absent

Init ==
    /\ fs \in Trees
    /\ store \in Stores
    /\ fs0 = fs
    /\ store0 = store
    /\ last = NoCall
    /\ Idle

Next ==
    \/ Chmod
    \/ Mkdir
    \/ RemoveAll
    \/ RunScript
    \/ Rename
    \/ WriteFile
    \/ WriteSymlink
    \/ Set
    \/ Delete

Spec == Init /\ [][Next]_vars

(***************************************************************************)
(* Properties of the GitDiffSystem (specification Spec).                   *)
(***************************************************************************)
WriteOps == {"Chmod", "Mkdir", "Rename", "RemoveAll", "WriteFile", "WriteSymlink", "RunScript"}

HasPatch == last.op \in WriteOps /\ last.patch # NoPatch

OwnerExec(perm) == (perm \div 64) % 2 = 1

\* C1: after any sequence of write and execute calls through the diff backend
\* the wrapped filesystem and the persistent store are what they were before
\* the sequence, and ReadFile, Stat, Readlink and Get through the backend return
\* the values they returned before it.
C1_DiffBackendNeverWrites ==
    /\ fs = fs0
    /\ store = store0
    /\ \A p \in Paths :
           /\ GDReadFile(p) = SRReadFile(fs0, p)
           /\ GDStat(p) = SRStat(fs0, p)
           /\ GDReadlink(p) = SRReadlink(fs0, p)
    /\ \A k \in Keys : GDGet(k) = SRGet(store0, k)

\* A WriteFile whose patch carries content other than the file's has been
\* encoded, and a read still returns the old content.
C1_Witness ==
    /\ last.op = "WriteFile"
    /\ last.patch # NoPatch
    /\ last.patch.to.hash # last.patch.from.hash
    /\ GDReadFile(last.name).err = nil
    /\ GDReadFile(last.name).data # last.data

\* C6: every write call and RunScript yields exactly one patch, for every state
\* of the wrapped provider; stated here for the case the claim singles out, a
\* WriteFile of a name that does not exist in the wrapped state, which is to
\* yield a new-file patch: no from side, and a to side with the translated perm
\* and the hash of data.
C6_WriteFileOfMissingNameYieldsNewFilePatch ==
    (last.op = "WriteFile" /\ Follow(fs, last.name).type = "absent")
        => /\ last.patch # NoPatch
           /\ last.patch.from = NoFile
           /\ last.patch.to =
                  gitDiffFile(NewFromOSFileMode(Mode("regular", last.perm)).fileMode,
                              TrimPrefix(last.name, Prefix), ComputeHash(last.data))

\* The parts of a Chmod patch that C8 states for every permission change.
ChmodPatchShape ==
    LET cur == SRStat(fs, last.name).mode
        from == last.patch.from
        to == last.patch.to
    IN /\ from # NoFile /\ to # NoFile
       /\ from.path = TrimPrefix(last.name, Prefix)
       /\ to.path = from.path
       /\ from.hash = ZeroHash
       /\ to.hash = ZeroHash
       /\ from.fileMode = NewFromOSFileMode(cur).fileMode
       /\ to.fileMode = NewFromOSFileMode(Mode(cur.type, last.perm)).fileMode
       /\ last.patch.isBinary = FALSE
       /\ last.patch.chunks = <<>>

\* C8 as amended: a Chmod of an existing path emits a from and a to descriptor
\* with the same trimmed path and the zero hash, the from mode translating the
\* current mode and the to mode the current type with the requested permission
\* bits; the descriptors differ in nothing but the mode, and they differ in the
\* mode exactly when the path is a regular file and the requested bits change
\* its owner-execute bit.
C8_ChmodPatchDiffersOnlyInTranslatedMode ==
    (last.op = "Chmod" /\ last.patch # NoPatch)
        => /\ ChmodPatchShape
           /\ (last.patch.from.fileMode # last.patch.to.fileMode)
                  <=> LET cur == SRStat(fs, last.name).mode
                      IN cur.type = "regular" /\ OwnerExec(cur.perm) # OwnerExec(last.perm)

\* A Chmod that changes the permission bits and the translated mode.
C8_Witness ==
    /\ last.op = "Chmod"
    /\ last.patch # NoPatch
    /\ last.perm # SRStat(fs, last.name).mode.perm
    /\ last.patch.from.fileMode = "Regular"
    /\ last.patch.to.fileMode = "Executable"

\* C8 as stated: ... and the two descriptors differ in mode whenever the
\* requested permission bits differ from the current ones.
C8_ChmodPatchDiffersWheneverPermsDiffer ==
    (last.op = "Chmod" /\ last.patch # NoPatch)
        => /\ ChmodPatchShape
           /\ (last.perm # SRStat(fs, last.name).mode.perm
                  => last.patch.from.fileMode # last.patch.to.fileMode)

\* C9: a patch with the binary flag carries no chunks; WriteFile sets the flag
\* exactly when the current or the new content is classified binary, RunScript
\* exactly when the script is; diffChunks runs only for a patch without the
\* flag; the empty content is never classified binary, so a WriteFile to or
\* from an empty file is binary only because of the other side.
C9_BinaryPatchesCarryNoChunks ==
    HasPatch
        => LET patch == last.patch IN
           /\ patch.isBinary => patch.chunks = <<>>
           /\ last.diffed => ~patch.isBinary
           /\ last.op = "WriteFile"
                  => LET cur == SRReadFile(fs, last.name).data IN
                     /\ patch.isBinary <=> (isBinary(cur) \/ isBinary(last.data))
                     /\ last.diffed <=> ~patch.isBinary
                     /\ cur = <<>> => (patch.isBinary <=> isBinary(last.data))
                     /\ last.data = <<>> => (patch.isBinary <=> isBinary(cur))
           /\ last.op = "RunScript"
                  => /\ patch.isBinary <=> isBinary(last.data)
                     /\ last.data = <<>> => ~patch.isBinary
           /\ last.op \notin {"WriteFile", "RunScript"} => ~patch.isBinary /\ ~last.diffed

\* A WriteFile of text over a binary file: the flag is set by the current side.
C9_Witness ==
    /\ last.op = "WriteFile"
    /\ last.patch # NoPatch
    /\ last.patch.isBinary
    /\ last.patch.chunks = <<>>
    /\ ~isBinary(last.data)
    /\ isBinary(SRReadFile(fs, last.name).data)

\* The path argument a descriptor of the latest patch was made from.
FromArg == last.name
ToArg == IF last.op = "Rename" THEN last.name2 ELSE last.name

\* path is arg with one leading occurrence of the prefix taken off, and arg
\* itself when arg does not begin with the prefix.
TrimmedOnce(arg, path) ==
    IF HasPrefix(arg, Prefix) THEN Prefix \o path = arg ELSE path = arg

\* C10 as amended: every path in a from or to descriptor of an emitted patch is
\* the argument path with one leading occurrence of the prefix removed (the
\* argument itself when it does not begin with the prefix).
C10_PathsHaveThePrefixRemovedOnce ==
    HasPatch
        => /\ last.patch.from # NoFile => TrimmedOnce(FromArg, last.patch.from.path)
           /\ last.patch.to # NoFile => TrimmedOnce(ToArg, last.patch.to.path)

\* A Rename from a path under the prefix to a path outside it.
C10_Witness ==
    /\ last.op = "Rename"
    /\ last.patch # NoPatch
    /\ HasPrefix(last.name, Prefix)
    /\ ~HasPrefix(last.name2, Prefix)
    /\ last.patch.to.path = last.name2

\* C10 as stated: every such path is the argument with the prefix removed and
\* never still begins with the prefix.
C10_PathsNeverBeginWithThePrefix ==
    HasPatch
        => /\ last.patch.from # NoFile
                  => /\ last.patch.from.path = TrimPrefix(FromArg, Prefix)
                     /\ ~HasPrefix(last.patch.from.path, Prefix)
           /\ last.patch.to # NoFile
                  => /\ last.patch.to.path = TrimPrefix(ToArg, Prefix)
                     /\ ~HasPrefix(last.patch.to.path, Prefix)

(***************************************************************************)
(* The direct backend.  A call advances one primitive at a time; every     *)
(* primitive either succeeds or fails with an error of its own, and hist   *)
(* records the primitives made and what each returned.                     *)
(***************************************************************************)
\* multierr.Append: nil on either side is dropped, two errors are kept both.
multierrAppend(left, right) == left \o right

Step(step, e) == [step |-> step, err |-> e]

Outcomes(e) == {nil, e}

RECURSIVE ResolvePath(_, _, _)
\* The path that opening name reaches: symbolic links are followed.
ResolvePath(f, name, fuel) ==
    IF f[name].type # "symlink" THEN name
    ELSE IF fuel = 0 THEN <<>>
    ELSE ResolvePath(f, f[name].target, fuel - 1)

RECURSIVE AndNot(_, _, _)
\* perm &^ umask on the low n bits.
AndNot(perm, umask, n) ==
    IF n = 0 THEN 0
    ELSE (IF perm % 2 = 1 /\ umask % 2 = 0 THEN 1 ELSE 0)
             + 2 * AndNot(perm \div 2, umask \div 2, n - 1)

\* The process umask: 022 or 077.
Umasks == {18, 63}

\* What a write of n bytes of data at offset 0 leaves in a file holding old.
Overwrite(old, data, n) ==
    SubSeq(data, 1, n) \o SubSeq(old, n + 1, Len(old))

(***************************************************************************)
(* WriteFile(fs, filename, data, perm).                                    *)
(***************************************************************************)
\* A variant without O_TRUNC: an existing file keeps its content.
OpenFileNoTrunc(f, path, perm, umask) ==
    IF f[path].type = "absent"
    THEN [f EXCEPT ![path] = File(AndNot(perm, umask, 9), <<>>)]
    ELSE f

\* fs.OpenFile(filename, O_WRONLY|O_CREATE|O_TRUNC, perm), when it succeeds:
\* a missing file is created empty with perm &^ umask, an existing one is
\* truncated and keeps its mode.
OpenFile(f, path, perm, umask) ==
    IF f[path].type = "absent"
    THEN [f EXCEPT ![path] = File(AndNot(perm, umask, 9), <<>>)]
    ELSE [f EXCEPT ![path] = File(f[path].perm, <<>>)]

\* The error OpenFile cannot avoid, nil if there is none.
OpenFileMustFail(f, path) ==
    IF path = <<>> THEN ErrLoop
    ELSE IF f[path].type = "dir" THEN ErrIsDir
    ELSE nil

\* A variant that goes from the open to the write, as ioutil.WriteFile does.
WFAfterOpenSkipsChmod(e) == IF e # nil THEN "done" ELSE "wf_write"

\* Where WriteFile goes after each primitive.
WFAfterOpen(e) == IF e # nil THEN "done" ELSE "wf_chmod"
WFAfterChmod(e) == IF e # nil THEN "wf_close" ELSE "wf_write"
WFAfterWrite(e) == "wf_close"

\* The deferred err = multierr.Append(err, f.Close()).
WFDeferredClose(e, closeErr) == multierrAppend(e, closeErr)

WFStart ==
    /\ pc = "idle"
    /\ \E filename \in Paths, data \in Contents, perm \in Perms :
           call' = [op |-> "WriteFile", name |-> filename, data |-> data, perm |-> perm,
                    path |-> ResolvePath(fs, filename, Cardinality(Paths)),
                    old |-> Follow(fs, filename)]
    /\ pc' = "wf_open"
    /\ UNCHANGED <<fs, store, fs0, store0, last, err, hist, tmp>>

WFOpen ==
    /\ pc = "wf_open"
    /\ \E umask \in Umasks :
       \E e \in IF OpenFileMustFail(fs, call.path) # nil
                THEN {OpenFileMustFail(fs, call.path)}
                ELSE Outcomes(<<"open">>) :
           /\ fs' = IF e = nil THEN OpenFile(fs, call.path, call.perm, umask) ELSE fs
           /\ err' = e
           /\ hist' = Append(hist, Step("open", e))
           /\ pc' = WFAfterOpen(e)
    /\ UNCHANGED <<store, fs0, store0, last, call, tmp>>

WFChmod ==
    /\ pc = "wf_chmod"
    /\ \E e \in Outcomes(<<"chmod">>) :
           /\ fs' = IF e = nil THEN [fs EXCEPT ![call.path].perm = call.perm] ELSE fs
           /\ err' = e
           /\ hist' = Append(hist, Step("chmod", e))
           /\ pc' = WFAfterChmod(e)
    /\ UNCHANGED <<store, fs0, store0, last, call, tmp>>

\* f.Write(data): a write that fails may have written any part of data.
WFWrite ==
    /\ pc = "wf_write"
    /\ \E n \in 0..Len(call.data) :
       \E e \in IF n < Len(call.data) THEN {<<"write">>} ELSE Outcomes(<<"write">>) :
           /\ fs' = [fs EXCEPT ![call.path].data = Overwrite(@, call.data, n)]
           /\ err' = e
           /\ hist' = Append(hist, Step("write", e))
           /\ pc' = WFAfterWrite(e)
    /\ UNCHANGED <<store, fs0, store0, last, call, tmp>>

WFClose ==
    /\ pc = "wf_close"
    /\ \E e \in Outcomes(<<"close">>) :
           /\ err' = WFDeferredClose(err, e)
           /\ hist' = Append(hist, Step("close", e))
    /\ pc' = "done"
    /\ UNCHANGED <<fs, store, fs0, store0, last, call, tmp>>

(***************************************************************************)
(* RealSystem.RunScript(name, data).                                       *)
(***************************************************************************)
RECURSIVE Base(_)
\* path.Base: the last element of a path.
Base(path) ==
    IF \A i \in 1..Len(path) : path[i] # "/" THEN path
    ELSE Base(Tail(path))

\* ioutil.TempFile("", "*."+path.Base(name)): the * is the random part.
TempName(name) == <<"*", ".">> \o Base(name)

\* The mode ioutil.TempFile creates with, and the mode RunScript sets.
TempFilePerm == 384
ScriptPerm == 448

\* A variant that runs the script whatever the write and the close returned.
RSAfterCloseRunsAnyway(e) == "rs_run"

\* Where RunScript goes after each primitive; "rs_remove" is the deferred
\* os.RemoveAll(f.Name()).
RSAfterTempFile(e) == IF e # nil THEN "done" ELSE "rs_chmod"
RSAfterChmodLeavesFile(e) == IF e # nil THEN "done" ELSE "rs_write"
RSAfterChmod(e) == IF e # nil THEN "rs_remove" ELSE "rs_write"
RSAfterWrite(e) == "rs_close"
RSAfterClose(e) == IF e # nil THEN "rs_remove" ELSE "rs_run"
RSAfterRun(e) == "rs_remove"

\* err = multierr.Append(err, f.Close()) after the write.
RSClose(e, closeErr) == multierrAppend(e, closeErr)

\* A variant that reports the removal only when nothing failed before.
RSDeferredRemoveKeepsFirst(e, removeErr) == IF e # nil THEN e ELSE removeErr

\* The deferred err = multierr.Append(err, os.RemoveAll(f.Name())).
RSDeferredRemove(e, removeErr) == multierrAppend(e, removeErr)

RSStart ==
    /\ pc = "idle"
    /\ \E name \in Paths, data \in Contents :
           call' = [op |-> "RunScript", name |-> name, data |-> data,
                    tmpName |-> TempName(name)]
    /\ pc' = "rs_tempfile"
    /\ UNCHANGED <<fs, store, fs0, store0, last, err, hist, tmp>>

RSTempFile ==
    /\ pc = "rs_tempfile"
    /\ \E e \in Outcomes(<<"tempfile">>) :
           /\ tmp' = IF e = nil THEN File(TempFilePerm, <<>>) ELSE tmp
           /\ err' = e
           /\ hist' = Append(hist, Step("tempfile", e))
           /\ pc' = RSAfterTempFile(e)
    /\ UNCHANGED <<fs, store, fs0, store0, last, call>>

RSChmod ==
    /\ pc = "rs_chmod"
    /\ \E e \in Outcomes(<<"chmod">>) :
           /\ tmp' = IF e = nil THEN [tmp EXCEPT !.perm = ScriptPerm] ELSE tmp
           /\ err' = e
           /\ hist' = Append(hist, Step("chmod", e))
           /\ pc' = RSAfterChmod(e)
    /\ UNCHANGED <<fs, store, fs0, store0, last, call>>

RSWrite ==
    /\ pc = "rs_write"
    /\ \E n \in 0..Len(call.data) :
       \E e \in IF n < Len(call.data) THEN {<<"write">>} ELSE Outcomes(<<"write">>) :
           /\ tmp' = [tmp EXCEPT !.data = Overwrite(@, call.data, n)]
           /\ err' = e
           /\ hist' = Append(hist, Step("write", e))
           /\ pc' = RSAfterWrite(e)
    /\ UNCHANGED <<fs, store, fs0, store0, last, call>>

RSCloseFile ==
    /\ pc = "rs_close"
    /\ \E e \in Outcomes(<<"close">>) :
           /\ err' = RSClose(err, e)
           /\ hist' = Append(hist, Step("close", e))
           /\ pc' = RSAfterClose(RSClose(err, e))
    /\ UNCHANGED <<fs, store, fs0, store0, last, call, tmp>>

\* c.Run(): the script runs and exits with status zero or not.
RSRun ==
    /\ pc = "rs_run"
    /\ \E e \in Outcomes(<<"exit status 1">>) :
           /\ err' = e
           /\ hist' = Append(hist, Step("run", e))
           /\ pc' = RSAfterRun(e)
    /\ UNCHANGED <<fs, store, fs0, store0, last, call, tmp>>

RSRemove ==
    /\ pc = "rs_remove"
    /\ \E e \in Outcomes(<<"remove">>) :
           /\ tmp' = IF e = nil THEN Absent ELSE tmp
           /\ err' = RSDeferredRemove(err, e)
           /\ hist' = Append(hist, Step("remove", e))
    /\ pc' = "done"
    /\ UNCHANGED <<fs, store, fs0, store0, last, call>>

(***************************************************************************)
(* RealSystem.WriteSymlink(oldname, newname).                              *)
(***************************************************************************)
ErrExist == <<"EEXIST">>

IsNotExist(e) == e = ErrNotExist

\* A variant that returns every error of RemoveAll.
WSAfterRemoveAllStrict(e) == IF e # nil THEN "done" ELSE "ws_symlink"

\* if err := s.FS.RemoveAll(newname); err != nil && !os.IsNotExist(err)
WSAfterRemoveAll(e) == IF e # nil /\ ~IsNotExist(e) THEN "done" ELSE "ws_symlink"

\* The errors s.FS.RemoveAll(newname) can return: ErrNotExist only for a path
\* that is not there.
RemoveAllOutcomes(f, newname) ==
    IF f[newname].type = "absent" THEN {nil, ErrNotExist} ELSE Outcomes(<<"remove">>)

\* The error s.FS.Symlink cannot avoid: the path is taken.
SymlinkMustFail(f, newname) == IF f[newname].type # "absent" THEN ErrExist ELSE nil

WSStart ==
    /\ pc = "idle"
    /\ \E oldname \in Paths, newname \in Paths, live \in BOOLEAN :
           /\ call' = [op |-> "WriteSymlink", oldname |-> oldname, newname |-> newname,
                       live |-> live, old |-> fs[newname]]
           /\ pc' = IF live THEN "ws_renameio" ELSE "ws_removeall"
    /\ UNCHANGED <<fs, store, fs0, store0, last, err, hist, tmp>>

\* renameio.Symlink(oldname, newname) on the live filesystem: the link is
\* made under a temporary name and renamed over newname, or nothing changes.
WSRenameio ==
    /\ pc = "ws_renameio"
    /\ \E e \in IF fs[call.newname].type = "dir" THEN {ErrIsDir} ELSE Outcomes(<<"renameio">>) :
           /\ fs' = IF e = nil THEN [fs EXCEPT ![call.newname] = Symlink(call.oldname)] ELSE fs
           /\ err' = e
           /\ hist' = Append(hist, Step("renameio", e))
    /\ pc' = "done"
    /\ UNCHANGED <<store, fs0, store0, last, call, tmp>>

WSRemoveAll ==
    /\ pc = "ws_removeall"
    /\ \E e \in RemoveAllOutcomes(fs, call.newname) :
           /\ fs' = IF e = nil THEN [fs EXCEPT ![call.newname] = Absent] ELSE fs
           /\ err' = IF WSAfterRemoveAll(e) = "done" THEN e ELSE nil
           /\ hist' = Append(hist, Step("removeall", e))
           /\ pc' = WSAfterRemoveAll(e)
    /\ UNCHANGED <<store, fs0, store0, last, call, tmp>>

WSSymlink ==
    /\ pc = "ws_symlink"
    /\ \E e \in IF SymlinkMustFail(fs, call.newname) # nil
                THEN {SymlinkMustFail(fs, call.newname)}
                ELSE Outcomes(<<"symlink">>) :
           /\ fs' = IF e = nil THEN [fs EXCEPT ![call.newname] = Symlink(call.oldname)] ELSE fs
           /\ err' = e
           /\ hist' = Append(hist, Step("symlink", e))
    /\ pc' = "done"
    /\ UNCHANGED <<store, fs0, store0, last, call, tmp>>

(***************************************************************************)
(* One call of the direct backend, from any state of the filesystem.       *)
(***************************************************************************)
\* The direct backend meets no named pipes here: OpenFile would block on one.
DirectTrees == {t \in Trees : \A p \in Paths : t[p].type # "pipe"}

\* The persistent state the RealSystem embeds: with a record, or empty.
DirectStores == Stores \cup {[k \in Keys |-> NoValue]}

InitDirect ==
    /\ fs \in DirectTrees
    /\ store \in DirectStores
    /\ fs0 = fs
    /\ store0 = store
    /\ last = NoCall
    /\ Idle

NextDirect ==
    \/ WFStart
    \/ WFOpen
    \/ WFChmod
    \/ WFWrite
    \/ WFClose
    \/ RSStart
    \/ RSTempFile
    \/ RSChmod
    \/ RSWrite
    \/ RSCloseFile
    \/ RSRun
    \/ RSRemove
    \/ WSStart
    \/ WSRenameio
    \/ WSRemoveAll
    \/ WSSymlink

SpecDirect == InitDirect /\ [][NextDirect]_vars

(***************************************************************************)
(* Properties of the direct backend (specification SpecDirect).            *)
(***************************************************************************)
Running(op) == pc # "idle" /\ call.op = op
Returned_(op) == pc = "done" /\ call.op = op

Attempted(step) == \E i \in 1..Len(hist) : hist[i].step = step
Succeeded(step) == \E i \in 1..Len(hist) : hist[i].step = step /\ hist[i].err = nil
Times(step) == Cardinality({i \in 1..Len(hist) : hist[i].step = step})

\* What the primitive step returned in this call; nil if it was not made.
ErrOf(step) ==
    IF Attempted(step) THEN hist[CHOOSE i \in 1..Len(hist) : hist[i].step = step].err
    ELSE nil

\* The primitives of hist were made in the order of steps, each at most once.
InOrder(steps) ==
    /\ \A i \in 1..Len(hist) : \E k \in 1..Len(steps) : hist[i].step = steps[k]
    /\ \A i, j \in 1..Len(hist) : i < j =>
           \E k, l \in 1..Len(steps) : k < l /\ hist[i].step = steps[k] /\ hist[j].step = steps[l]

IsPrefixOf(a, b) == Len(a) <= Len(b) /\ SubSeq(b, 1, Len(a)) = a

\* C2: a WriteFile over an existing file makes its steps in the order open
\* (truncating), chmod, write, close; once opened the file holds nothing of its
\* old content, so no old content is ever under the new mode, and until the
\* chmod has succeeded it holds none of the new bytes, so no new byte is ever
\* under the old mode; this in every state of the call, failures included.
C2_WriteFileOrdering ==
    (Running("WriteFile") /\ call.old.type = "regular")
        => /\ InOrder(<<"open", "chmod", "write", "close">>)
           /\ Attempted("chmod") => Succeeded("open")
           /\ Attempted("write") => Succeeded("chmod")
           /\ ~Succeeded("open") => fs = fs0
           /\ Succeeded("open") =>
                  LET cur == fs[call.path] IN
                  /\ ~Attempted("write") => cur.data = <<>>
                  /\ ~Succeeded("chmod") => cur.data = <<>> /\ cur.perm = call.old.perm
                  /\ Succeeded("chmod") => cur.perm = call.perm
                  /\ IsPrefixOf(cur.data, call.data)
                  /\ (call.old.data # <<>> /\ call.old.perm # call.perm /\ ~Attempted("write"))
                         => ~(cur.data = call.old.data /\ cur.perm = call.perm)
                  /\ (cur.data # <<>> /\ call.old.perm # call.perm)
                         => cur.perm # call.old.perm

\* The file had content and another mode; it is now empty under the new mode
\* and the new bytes are about to be written.
C2_Witness ==
    /\ Running("WriteFile")
    /\ pc = "wf_write"
    /\ call.old.type = "regular"
    /\ call.old.data # <<>>
    /\ call.old.perm # call.perm
    /\ call.data # <<>>
    /\ fs[call.path] = File(call.perm, <<>>)

\* C3: when WriteFile returns without error the file's content is exactly data
\* and its permission bits are exactly perm, whatever name held before and
\* whatever the umask.
C3_WriteFileRoundTrip ==
    (Returned_("WriteFile") /\ err = nil)
        => /\ SRReadFile(fs, call.name) = [err |-> nil, data |-> call.data]
           /\ SRStat(fs, call.name) = [err |-> nil, mode |-> Mode("regular", call.perm)]

\* A WriteFile over a file of other content and other mode has returned nil.
C3_Witness ==
    /\ Returned_("WriteFile")
    /\ err = nil
    /\ call.old.type = "regular"
    /\ call.old.perm # call.perm
    /\ call.old.data # call.data
    /\ call.old.data # <<>>

\* C4 as amended: in every RunScript that created its temporary file the
\* removal of the file is attempted exactly once, as the last step, on every
\* exit path; when the removal succeeds the file does not exist when RunScript
\* returns, and when the removal fails its error is part of the returned error.
C4_TempFileRemovalAlwaysAttempted ==
    Returned_("RunScript")
        => /\ ~Succeeded("tempfile") => tmp = Absent /\ ~Attempted("remove")
           /\ Succeeded("tempfile") =>
                  /\ Times("remove") = 1
                  /\ hist[Len(hist)].step = "remove"
                  /\ ErrOf("remove") = nil => tmp = Absent
                  /\ ErrOf("remove") # nil =>
                         /\ Len(err) >= 1
                         /\ SubSeq(err, Len(err), Len(err)) = ErrOf("remove")

\* The mode of the temporary file could not be set, and the file is gone.
C4_Witness ==
    /\ Returned_("RunScript")
    /\ Succeeded("tempfile")
    /\ ErrOf("chmod") # nil
    /\ ErrOf("remove") = nil
    /\ tmp = Absent

\* C4 as stated: the temporary file a RunScript created does not exist when
\* RunScript returns, on every exit path.
C4_TempFileNeverOutlivesTheCall ==
    (Returned_("RunScript") /\ Succeeded("tempfile")) => tmp = Absent

\* The error of the steps before the cleanup, and the error of the cleanup.
EarlierErr ==
    IF call.op = "RunScript"
    THEN ErrOf("chmod") \o ErrOf("write") \o ErrOf("close") \o ErrOf("run")
    ELSE ErrOf("chmod") \o ErrOf("write")

CleanupErr == IF call.op = "RunScript" THEN ErrOf("remove") ELSE ErrOf("close")

HasPart(e, part) ==
    \E i \in 0..(Len(e) - Len(part)) : SubSeq(e, i + 1, i + Len(part)) = part

\* C5: when RunScript or WriteFile returns after its cleanup step (removing
\* the temporary file, closing the file), the returned error holds both the
\* earlier error and the cleanup error when both failed, is the one that failed
\* when one did, and is nil when none did.
C5_CleanupErrorsAreCombined ==
    (pc = "done" /\ call.op \in {"RunScript", "WriteFile"}
        /\ Attempted(IF call.op = "RunScript" THEN "remove" ELSE "close"))
        => /\ (EarlierErr # nil /\ CleanupErr # nil)
                  => /\ HasPart(err, EarlierErr)
                     /\ HasPart(err, CleanupErr)
                     /\ Len(err) = Len(EarlierErr) + Len(CleanupErr)
           /\ (EarlierErr # nil /\ CleanupErr = nil) => err = EarlierErr
           /\ (EarlierErr = nil /\ CleanupErr # nil) => err = CleanupErr
           /\ (EarlierErr = nil /\ CleanupErr = nil) => err = nil

\* The script exited non-zero and its temporary file could not be removed.
C5_Witness ==
    /\ Returned_("RunScript")
    /\ ErrOf("run") # nil
    /\ ErrOf("remove") # nil
    /\ err = ErrOf("run") \o ErrOf("remove")

\* C7: off the live filesystem, a WriteSymlink that returns nil leaves newname
\* a symbolic link to oldname whatever newname was; RemoveAll reporting that
\* newname does not exist is not an error of the call; any other error of
\* RemoveAll is returned, no link is made and newname is as it was.
C7_WriteSymlinkReplaces ==
    (Returned_("WriteSymlink") /\ ~call.live)
        => /\ err = nil => SRReadlink(fs, call.newname) = [err |-> nil, target |-> call.oldname]
           /\ ErrOf("removeall") = ErrNotExist
                  => /\ Attempted("symlink")
                     /\ err = ErrOf("symlink")
           /\ (ErrOf("removeall") # nil /\ ErrOf("removeall") # ErrNotExist)
                  => /\ err = ErrOf("removeall")
                     /\ ~Attempted("symlink")
                     /\ fs = fs0

\* A directory has been replaced by the link.
C7_Witness ==
    /\ Returned_("WriteSymlink")
    /\ ~call.live
    /\ err = nil
    /\ call.old.type = "dir"
    /\ fs[call.newname] = Symlink(call.oldname)

\* The temporary file grants nothing to group or other.
OwnerOnly(perm) == perm % 64 = 0

\* The steps of RunScript before the execution have all succeeded.
ScriptReady ==
    /\ Succeeded("tempfile")
    /\ Succeeded("chmod")
    /\ Succeeded("write")
    /\ Succeeded("close")

\* C11: RunScript makes its steps in the order create, chmod 0700, write,
\* close, execute, remove; a temporary file that holds any script byte is
\* owner-only (mode 0700); the script is executed at most once, only after the
\* creation, the mode change, the write and the close have all succeeded, and
\* then it is the whole script that is executed; when all four succeeded the
\* script has been executed by the time the file is removed, whatever the
\* persistent state holds, and the persistent state is neither the gate nor
\* changed.
C11_RunScriptStepOrder ==
    Running("RunScript")
        => /\ InOrder(<<"tempfile", "chmod", "write", "close", "run", "remove">>)
           /\ Attempted("chmod") => Succeeded("tempfile")
           /\ Attempted("write") => Succeeded("chmod")
           /\ Attempted("close") => Attempted("write")
           /\ tmp # Absent =>
                  /\ OwnerOnly(tmp.perm)
                  /\ tmp.data # <<>> => tmp.perm = ScriptPerm
                  /\ Succeeded("chmod") => tmp.perm = ScriptPerm
                  /\ IsPrefixOf(tmp.data, call.data)
           /\ Times("run") <= 1
           /\ Attempted("run") => ScriptReady
           /\ pc = "rs_run" => tmp = File(ScriptPerm, call.data)
           /\ (ScriptReady /\ pc \in {"rs_remove", "done"}) => Attempted("run")
           /\ (ScriptReady /\ pc \notin {"rs_remove", "done"}) => pc = "rs_run"
           /\ store = store0

\* The script has been executed although the persistent state holds a record,
\* and the call has returned.
C11_Witness ==
    /\ Returned_("RunScript")
    /\ ScriptReady
    /\ Succeeded("run")
    /\ call.data # <<>>
    /\ store["k1"] # NoValue

====
